---- MODULE Spec2Model ----
(***************************************************************************)
(* A model of the reactive state store of aether.js (createStore, the      *)
(* proxy handler, scheduleUpdate, processUpdates, setState, subscribe and  *)
(* _addBinding).                                                           *)
(*                                                                         *)
(* JavaScript strings are modelled as sequences of one-character strings,  *)
(* so that String.prototype.startsWith, split('.') and '+' are computed on *)
(* characters as the code computes them.  JavaScript values are tagged     *)
(* records: undefined, null, a boolean, a number, or a plain object (a     *)
(* function from keys to values).  Arrays and strings as values are not    *)
(* modelled.                                                               *)
(***************************************************************************)
EXTENDS Integers, Sequences, FiniteSets, TLC

VARIABLES
    state,        \* the tracked state tree (target of the root Proxy)
    subscribers,  \* Set of callbacks, in insertion order
    bindings,     \* Map key -> list of bindings, in key insertion order
    updateQueue,  \* Set of changed keys, in insertion order
    isUpdating,   \* the update flag of the store
    rafPending,   \* number of requestAnimationFrame(processUpdates) callbacks not yet run
    elements,     \* the bound DOM elements: isConnected and the bound property
    handles,      \* the callbacks for which subscribe has returned an unsubscribe handle
    promises,     \* per element, the promise of the bind() call that targets it
    calls,        \* history: subscriber invocations, when the last step was a flush
    cbWrites,     \* history: paths whose value a callback changed in that flush
    windowWrites, \* history: paths changed by property writes since the last flush
    applied,      \* history: the binding applications of the last step (flush or bind)
    lastOp,       \* history: the last operation and whether it threw, where a
                  \* specification records it
    clock,        \* Date.now(), in milliseconds
    thr,          \* the closure of one throttled function: options, inThrottle,
                  \* lastFunc, lastRan
    deb,          \* the closure of one debounced function: timeout, result
    lastCall,     \* history: the time, the arguments and the burst of the last debounced
                  \* call; for the throttled function burst counts the calls
    log,          \* history: the invocations of the wrapped func, with time and arguments
    rtr,          \* the closure of one router: routes, middleware, notFoundHandler,
                  \* currentRoute, isInitialized; the location; what the last method returned
    checks,       \* the checkRoutes() calls, in flight or finished, each with what it ran
    matching,     \* whether document.querySelector(selector) finds an element
    waits,        \* the waitFor(selector, timeout) calls: promise, observer, timer
    stateStore,   \* the module-level store reference: 0 for null, or the number of a store
    stores,       \* the stores createStore has returned, in creation order: the state
                  \* and the binding registry of each
    pending       \* per element, the bind() call that waits for it, if any

vars == <<state, subscribers, bindings, updateQueue, isUpdating, rafPending,
          elements, handles, promises, calls, cbWrites, windowWrites, applied, lastOp,
          clock, thr, deb, lastCall, log, rtr, checks, matching, waits,
          stateStore, stores, pending>>

\* the store, and the utilities that do not touch it
storeVars == <<state, subscribers, bindings, updateQueue, isUpdating, rafPending,
               elements, handles, promises, calls, cbWrites, windowWrites, applied,
               lastOp>>
utilVars == <<clock, thr, deb, lastCall, log, rtr, checks, matching, waits>>

\* the singleton reference and the stores it has denoted
moduleVars == <<stateStore, stores, pending>>

----------------------------------------------------------------------------
(* Bounds *)

MaxRaf == 2          \* cap on the number of pending animation-frame callbacks
MaxWindow == 2       \* cap on the value-changing property writes between two flushes

----------------------------------------------------------------------------
(* Values and strings *)

Undef == [t |-> "undef"]
Null == [t |-> "null"]
Bool(b) == [t |-> "bool", b |-> b]
Num(n) == [t |-> "num", n |-> n]
Obj(f) == [t |-> "obj", f |-> f]

EmptyStr == <<>>
Ku == <<"u">>
Kun == <<"u", "n">>
Keys == {Ku, Kun}

EmptyObj == Obj([k \in {} |-> Undef])
Obj1(k, v) == Obj([x \in {k} |-> v])
Obj2(v1, v2) == Obj([x \in Keys |-> IF x = Ku THEN v1 ELSE v2])

\* a === b : objects written by callers are fresh literals, never identical
StrictEq(a, b) == a.t # "obj" /\ a = b

\* s.startsWith(p)
StartsWith(s, p) == Len(p) <= Len(s) /\ SubSeq(s, 1, Len(p)) = p

\* s.split('.')
RECURSIVE Split(_)
Split(s) ==
    IF \E i \in 1..Len(s) : s[i] = "."
    THEN LET i == CHOOSE j \in 1..Len(s) :
                    s[j] = "." /\ \A m \in 1..(j - 1) : s[m] # "."
         IN <<SubSeq(s, 1, i - 1)>> \o Split(SubSeq(s, i + 1, Len(s)))
    ELSE <<s>>

\* acc?.[part], also target[property]
GetProp(v, k) == IF v.t = "obj" /\ k \in DOMAIN v.f THEN v.f[k] ELSE Undef

RECURSIVE Reduce(_, _)
Reduce(acc, parts) ==
    IF parts = <<>> THEN acc ELSE Reduce(GetProp(acc, Head(parts)), Tail(parts))

getNested(obj, path) == Reduce(obj, Split(path))

\* the object reached from root along a chain of keys
RECURSIVE TargetOf(_, _)
TargetOf(root, chain) ==
    IF chain = <<>> THEN root ELSE TargetOf(GetProp(root, Head(chain)), Tail(chain))

\* Reflect.set(target, property, value) on the object at chain
RECURSIVE ReflectSet(_, _, _, _)
ReflectSet(root, chain, prop, value) ==
    IF chain = <<>>
    THEN Obj([x \in DOMAIN root.f \cup {prop} |-> IF x = prop THEN value ELSE root.f[x]])
    ELSE Obj([root.f EXCEPT ![Head(chain)] = ReflectSet(root.f[Head(chain)], Tail(chain), prop, value)])

\* set.add(x) on an insertion-ordered Set
SetAdd(q, x) == IF \E i \in 1..Len(q) : q[i] = x THEN q ELSE Append(q, x)

Range(q) == {q[i] : i \in 1..Len(q)}
Count(q, x) == Cardinality({i \in 1..Len(q) : q[i] = x})

----------------------------------------------------------------------------
(* The store as a record, and the functions of createStore over it *)

Cur == [state |-> state, subscribers |-> subscribers, bindings |-> bindings,
        updateQueue |-> updateQueue, isUpdating |-> isUpdating,
        rafPending |-> rafPending, elements |-> elements, handles |-> handles,
        promises |-> promises,
        calls |-> calls, cbWrites |-> cbWrites, applied |-> applied, threw |-> FALSE]

\* (this.path ? this.path + '.' : '') + property
PathJoin(path, property) ==
    (IF path # EmptyStr THEN path \o <<".">> ELSE EmptyStr) \o property

RootProxy == [chain |-> <<>>, path |-> EmptyStr]

IsProxy(r) == r.kind = "proxy"

\* handler.get with  path: property  (the base path is not accumulated)
HandlerGetLastSegment(S, px, property) ==
    LET value == GetProp(TargetOf(S.state, px.chain), property)
    IN IF value.t = "obj"
       THEN [kind |-> "proxy", chain |-> Append(px.chain, property), path |-> property]
       ELSE [kind |-> "value", v |-> value]

\* handler.get: an object-valued property comes back as a Proxy carrying the path
HandlerGet(S, px, property) ==
    LET value == GetProp(TargetOf(S.state, px.chain), property)
    IN IF value.t = "obj"
       THEN [kind |-> "proxy", chain |-> Append(px.chain, property),
             path |-> PathJoin(px.path, property)]
       ELSE [kind |-> "value", v |-> value]

\* state.k1.k2...kn read through the tracked state
RECURSIVE ReadFrom(_, _, _)
ReadFrom(S, px, chain) ==
    IF chain = <<>> THEN px
    ELSE LET r == HandlerGet(S, px, Head(chain))
         IN IF IsProxy(r) THEN ReadFrom(S, r, Tail(chain)) ELSE r
Read(S, chain) == ReadFrom(S, [kind |-> "proxy", chain |-> <<>>, path |-> EmptyStr], chain)

scheduleUpdate(S, changedKey) ==
    LET S1 == [S EXCEPT !.updateQueue = SetAdd(S.updateQueue, changedKey)]
    IN IF ~S1.isUpdating
       THEN [S1 EXCEPT !.isUpdating = TRUE, !.rafPending = S1.rafPending + 1]
       ELSE S1

\* handler.set without the  oldValue === value  test
HandlerSetNoSkip(S, px, property, value) ==
    LET fullPath == PathJoin(px.path, property)
        S1 == [S EXCEPT !.state = ReflectSet(S.state, px.chain, property, value)]
    IN IF ~S1.isUpdating THEN scheduleUpdate(S1, fullPath) ELSE S1

\* handler.set with the assignment made only where the change is reported
HandlerSetWhenIdle(S, px, property, value) ==
    LET oldValue == GetProp(TargetOf(S.state, px.chain), property)
    IN IF StrictEq(oldValue, value) \/ S.isUpdating THEN S
       ELSE scheduleUpdate(
              [S EXCEPT !.state = ReflectSet(S.state, px.chain, property, value)],
              PathJoin(px.path, property))

\* handler.set
HandlerSet(S, px, property, value) ==
    LET oldValue == GetProp(TargetOf(S.state, px.chain), property)
    IN IF StrictEq(oldValue, value) THEN S
       ELSE LET fullPath == PathJoin(px.path, property)
                S1 == [S EXCEPT !.state = ReflectSet(S.state, px.chain, property, value)]
            IN IF ~S1.isUpdating THEN scheduleUpdate(S1, fullPath) ELSE S1

----------------------------------------------------------------------------
(* Callbacks supplied by callers *)

Subs == {"s1", "s2"}
\* s1 only reads its arguments; s2 does  state.un = 1; s3 throws;
\* s4 calls its own unsubscribe handle; s5 calls the unsubscribe handle of
\* s1 once subscribe(s1) has returned one
SubKind(s) ==
    CASE s = "s1" -> "plain"
      [] s = "s2" -> "writer"
      [] s = "s3" -> "thrower"
      [] s = "s4" -> "selfUnsubscriber"
      [] s = "s5" -> "unsubscriber"
      [] OTHER -> "nonfunction"

Transforms == {"none", "plus10"}
\* v => typeof v === 'number' ? v + 10 : -1
ApplyTransform(t, v) ==
    IF t = "none" THEN v
    ELSE IF v.t = "num" THEN Num(v.n + 10) ELSE Num(-1)

\* transform "none" is no transform (undefined); the transform
\* v => { if (v === 1) throw new Error(); return v + 10; }  is "throwOn1",
\* it returns what "plus10" returns when it does not throw
TransformThrows(t, v) == t = "throwOn1" /\ v = Num(1)

\* subscribers.clear()
unsubscribeAll(S, callback) == [S EXCEPT !.subscribers = <<>>]

\* the handle  () => subscribers.delete(callback)
unsubscribe(S, callback) ==
    [S EXCEPT !.subscribers = SelectSeq(@, LAMBDA c : c # callback)]

\* callback(state, changedKeys) without its try/catch: the exception of a
\* callback leaves the forEach, and no later callback is called
CallSubscriberUncaught(S, s, changedKeys) ==
    IF S.threw THEN S
    ELSE LET S1 == [S EXCEPT !.calls = Append(S.calls, [sub |-> s, keys |-> changedKeys])]
         IN CASE SubKind(s) = "writer" ->
                   LET changed == ~StrictEq(GetProp(S1.state, Kun), Num(1))
                       S2 == HandlerSet(S1, RootProxy, Kun, Num(1))
                   IN IF changed THEN [S2 EXCEPT !.cbWrites = S2.cbWrites \cup {Kun}] ELSE S2
              [] SubKind(s) = "selfUnsubscriber" -> unsubscribe(S1, s)
              [] SubKind(s) = "unsubscriber" ->
                   IF "s1" \in S1.handles THEN unsubscribe(S1, "s1") ELSE S1
              [] SubKind(s) = "thrower" -> [S1 EXCEPT !.threw = TRUE]
              [] OTHER -> S1

\* try { callback(state, changedKeys) } catch (error) { console.error(...) }
\* a callback that throws, or a value that cannot be called, is caught here
CallSubscriber(S, s, changedKeys) ==
    LET S1 == [S EXCEPT !.calls = Append(S.calls, [sub |-> s, keys |-> changedKeys])]
    IN CASE SubKind(s) = "writer" ->
              LET changed == ~StrictEq(GetProp(S1.state, Kun), Num(1))
                  S2 == HandlerSet(S1, RootProxy, Kun, Num(1))
              IN IF changed THEN [S2 EXCEPT !.cbWrites = S2.cbWrites \cup {Kun}] ELSE S2
         [] SubKind(s) = "selfUnsubscriber" -> unsubscribe(S1, s)
         [] SubKind(s) = "unsubscriber" ->
              IF "s1" \in S1.handles THEN unsubscribe(S1, "s1") ELSE S1
         [] OTHER -> S1

\* subscribers.forEach(callback => ...): Set.prototype.forEach visits the
\* entries in insertion order and passes over an entry deleted before its
\* turn; order is the insertion order when the loop starts (no callback of
\* the model adds a subscriber)
RECURSIVE NotifySubscribers(_, _, _, _)
NotifySubscribers(S, order, i, changedKeys) ==
    IF i > Len(order) THEN S
    ELSE IF order[i] \in Range(S.subscribers)
         THEN NotifySubscribers(CallSubscriber(S, order[i], changedKeys), order, i + 1,
                                changedKeys)
         ELSE NotifySubscribers(S, order, i + 1, changedKeys)

\* the binding update without the isConnected guard
UpdateBindingDetached(S, key, b, changedKey) ==
    LET value == getNested(S.state, key)
        entry == [key |-> key, element |-> b.element, on |-> changedKey,
                  phase |-> "flush"]
    IN IF TransformThrows(b.transform, value)
       THEN [S EXCEPT !.applied = Append(@, [entry |-> entry, called |-> TRUE,
                                              threw |-> TRUE, written |-> FALSE,
                                              after |-> Len(S.calls)])]
       ELSE LET finalValue == ApplyTransform(b.transform, value)
                written == ~StrictEq(S.elements[b.element].textContent, finalValue)
            IN [S EXCEPT !.elements[b.element].textContent = finalValue,
                         !.applied = Append(@, [entry |-> entry,
                                                called |-> b.transform # "none",
                                                threw |-> FALSE, written |-> written,
                                                after |-> Len(S.calls)])]

\* the binding update without its try/catch: the exception of a transform
\* leaves the loops, and no later binding is updated in this flush
UpdateBindingUncaught(S, key, b, changedKey) ==
    IF S.threw THEN S
    ELSE IF S.elements[b.element].isConnected
    THEN LET value == getNested(S.state, key)
             entry == [key |-> key, element |-> b.element, on |-> changedKey,
                       phase |-> "flush"]
         IN IF TransformThrows(b.transform, value)
            THEN [S EXCEPT !.threw = TRUE,
                           !.applied = Append(@, [entry |-> entry, called |-> TRUE,
                                                  threw |-> TRUE, written |-> FALSE,
                                                  after |-> Len(S.calls)])]
            ELSE LET finalValue == ApplyTransform(b.transform, value)
                     written == ~StrictEq(S.elements[b.element].textContent, finalValue)
                 IN [S EXCEPT !.elements[b.element].textContent = finalValue,
                              !.applied = Append(@, [entry |-> entry,
                                                     called |-> b.transform # "none",
                                                     threw |-> FALSE, written |-> written,
                                                     after |-> Len(S.calls)])]
    ELSE S

\* the body of bindingList.forEach for one binding; the element is assigned
\* only when element[prop] !== finalValue, which leaves the same value in it
\* applied records the application: the changed key that caused it, whether
\* the transform threw (caught and logged), whether the element was assigned
\* and how many subscriber calls of the step had been made before it
UpdateBinding(S, key, b, changedKey) ==
    IF S.elements[b.element].isConnected
    THEN LET value == getNested(S.state, key)
             entry == [key |-> key, element |-> b.element, on |-> changedKey,
                       phase |-> "flush"]
         IN IF TransformThrows(b.transform, value)
            THEN [S EXCEPT !.applied = Append(@, [entry |-> entry, called |-> TRUE,
                                                   threw |-> TRUE, written |-> FALSE,
                                                   after |-> Len(S.calls)])]
            ELSE LET finalValue == ApplyTransform(b.transform, value)
                     written == ~StrictEq(S.elements[b.element].textContent, finalValue)
                 IN [S EXCEPT !.elements[b.element].textContent = finalValue,
                              !.applied = Append(@, [entry |-> entry,
                                                     called |-> b.transform # "none",
                                                     threw |-> FALSE, written |-> written,
                                                     after |-> Len(S.calls)])]
    ELSE S

RECURSIVE UpdateBindingList(_, _, _, _, _)
UpdateBindingList(S, key, list, i, changedKey) ==
    IF i > Len(list) THEN S
    ELSE UpdateBindingList(UpdateBinding(S, key, list[i], changedKey), key, list, i + 1,
                           changedKey)

\* key.startsWith(changedKey) alone
RelatedOneWay(key, changedKey) == StartsWith(key, changedKey)

\* key.startsWith(changedKey) || changedKey.startsWith(key)
Related(key, changedKey) == StartsWith(key, changedKey) \/ StartsWith(changedKey, key)

\* for (const [key, bindingList] of bindings) ...
RECURSIVE UpdateForKey(_, _, _)
UpdateForKey(S, changedKey, j) ==
    IF j > Len(S.bindings) THEN S
    ELSE LET entry == S.bindings[j]
             S1 == IF Related(entry.key, changedKey)
                   THEN UpdateBindingList(S, entry.key, entry.list, 1, changedKey)
                   ELSE S
         IN UpdateForKey(S1, changedKey, j + 1)

\* changedKeys.forEach(changedKey => ...)
RECURSIVE UpdateBindings(_, _, _)
UpdateBindings(S, changedKeys, i) ==
    IF i > Len(changedKeys) THEN S
    ELSE UpdateBindings(UpdateForKey(S, changedKeys[i], 1), changedKeys, i + 1)

\* processUpdates without its last statement
processUpdatesKeepsFlag(S) ==
    LET changedKeys == S.updateQueue
        S1 == [S EXCEPT !.updateQueue = <<>>]
        S2 == NotifySubscribers(S1, S1.subscribers, 1, changedKeys)
    IN UpdateBindings(S2, changedKeys, 1)

\* processUpdates with the binding loop placed before the subscriber loop
processUpdatesBindingsFirst(S) ==
    LET changedKeys == S.updateQueue
        S1 == [S EXCEPT !.updateQueue = <<>>]
        S2 == UpdateBindings(S1, changedKeys, 1)
        S3 == NotifySubscribers(S2, S2.subscribers, 1, changedKeys)
    IN [S3 EXCEPT !.isUpdating = FALSE]

processUpdates(S) ==
    LET changedKeys == S.updateQueue
        S1 == [S EXCEPT !.updateQueue = <<>>]
        S2 == NotifySubscribers(S1, S1.subscribers, 1, changedKeys)
        S3 == UpdateBindings(S2, changedKeys, 1)
    IN [S3 EXCEPT !.isUpdating = FALSE]

\* Object.entries(newState).forEach(([key, value]) => { state[key] = value; })
RECURSIVE MergeKeys(_, _, _)
MergeKeys(S, newState, ks) ==
    IF ks = {} THEN S
    ELSE LET k == CHOOSE x \in ks : TRUE
         IN MergeKeys(HandlerSet(S, RootProxy, k, newState.f[k]), newState, ks \ {k})

\* the own enumerable keys of a value: a primitive has none
OwnKeys(v) == IF v.t = "obj" THEN DOMAIN v.f ELSE {}

\* Object.entries(v) throws a TypeError for undefined and null
EntriesThrows(v) == v.t \in {"undef", "null"}

\* Object.assign(state, newState) without deleting the old keys
ReplaceStateNoDelete(S, newState) ==
    MergeKeys(S, newState, OwnKeys(newState))

\* Object.keys(state).forEach(key => delete state[key]); Object.assign(state, newState)
\* (Object.assign ignores a source that is undefined, null or a primitive)
ReplaceState(S, newState) ==
    MergeKeys([S EXCEPT !.state = EmptyObj], newState, OwnKeys(newState))

\* try { ... } finally { isUpdating = false; scheduleUpdate('') }: an exception
\* of the body propagates to the caller after the finally block has run
setState(S, newState, merge) ==
    LET S1 == [S EXCEPT !.isUpdating = TRUE]
        S2 == IF merge
              THEN IF EntriesThrows(newState) THEN [S1 EXCEPT !.threw = TRUE]
                   ELSE MergeKeys(S1, newState, OwnKeys(newState))
              ELSE ReplaceState(S1, newState)
        S3 == [S2 EXCEPT !.isUpdating = FALSE]
    IN scheduleUpdate(S3, EmptyStr)

\* typeof callback === 'function'
NonFunctions == {"notAFunction"}
IsFunction(callback) == callback \notin NonFunctions

\* store.subscribe without the typeof test
subscribeUnchecked(S, callback) ==
    [S EXCEPT !.subscribers = SetAdd(S.subscribers, callback),
              !.handles = @ \cup {callback}]

\* store.subscribe
subscribe(S, callback) ==
    IF ~IsFunction(callback) THEN [S EXCEPT !.threw = TRUE]
    ELSE [S EXCEPT !.subscribers = SetAdd(S.subscribers, callback),
                   !.handles = @ \cup {callback}]

\* store._addBinding
AddBindingEntry(bs, key, b) ==
    IF \E j \in 1..Len(bs) : bs[j].key = key
    THEN [j \in 1..Len(bs) |->
            IF bs[j].key = key THEN [bs[j] EXCEPT !.list = Append(bs[j].list, b)] ELSE bs[j]]
    ELSE Append(bs, [key |-> key, list |-> <<b>>])

\* store._addBinding followed by scheduleUpdate(key)
addBindingAndSchedule(S, key, element, prop, transform) ==
    LET S1 == [S EXCEPT !.bindings = AddBindingEntry(S.bindings, key,
                          [element |-> element, prop |-> prop, transform |-> transform])]
        value == getNested(S1.state, key)
        entry == [key |-> key, element |-> element, on |-> key, phase |-> "bind"]
    IN IF TransformThrows(transform, value)
       THEN [S1 EXCEPT !.applied = Append(@, [entry |-> entry, called |-> TRUE,
                                               threw |-> TRUE, written |-> FALSE,
                                               after |-> Len(S1.calls)])]
       ELSE scheduleUpdate(
              [S1 EXCEPT !.elements[element].textContent = ApplyTransform(transform, value),
                         !.applied = Append(@, [entry |-> entry,
                                                called |-> transform # "none",
                                                threw |-> FALSE, written |-> TRUE,
                                                after |-> Len(S1.calls)])],
              key)

addBinding(S, key, element, prop, transform) ==
    LET S1 == [S EXCEPT !.bindings = AddBindingEntry(S.bindings, key,
                          [element |-> element, prop |-> prop, transform |-> transform])]
        value == getNested(S1.state, key)
        entry == [key |-> key, element |-> element, on |-> key, phase |-> "bind"]
    IN IF TransformThrows(transform, value)
       THEN [S1 EXCEPT !.applied = Append(@, [entry |-> entry, called |-> TRUE,
                                               threw |-> TRUE, written |-> FALSE,
                                               after |-> Len(S1.calls)])]
       ELSE [S1 EXCEPT !.elements[element].textContent = ApplyTransform(transform, value),
                       !.applied = Append(@, [entry |-> entry,
                                              called |-> transform # "none",
                                              threw |-> FALSE, written |-> TRUE,
                                              after |-> Len(S1.calls)])]

\* bindingList.filter(({ element }) => element && element.isConnected)
ActiveBindings(S, list) == SelectSeq(list, LAMBDA b : S.elements[b.element].isConnected)

\* _cleanupBindings deleting the key as soon as one of its bindings is dead
cleanupBindingsWholeKey(S) ==
    [S EXCEPT !.bindings =
        SelectSeq(S.bindings, LAMBDA entry : ActiveBindings(S, entry.list) = entry.list)]

\* store._cleanupBindings: a Map keeps the position of a key that is set
\* again, and deleting the current key does not disturb the iteration
cleanupBindings(S) ==
    LET filtered == [j \in 1..Len(S.bindings) |->
                       [S.bindings[j] EXCEPT !.list = ActiveBindings(S, @)]]
    IN [S EXCEPT !.bindings = SelectSeq(filtered, LAMBDA entry : entry.list # <<>>)]

\* the promise bind() returns: how the element wait ended, how the promise
\* settled and with what value
Promise(key, transform, wait, settled, value) ==
    [key |-> key, transform |-> transform, wait |-> wait, settled |-> settled,
     value |-> value]
NoPromise == Promise(EmptyStr, "none", "", "", "")

\* bind(selector, stateKey, options): waitFor(selector) is pending
bind(S, e, key, transform) ==
    [S EXCEPT !.promises[e] = Promise(key, transform, "waiting", "pending", "")]

\* waitFor resolves with the element; .then(element => { stateStore._addBinding(...);
\* return () => { console.log(...) } })
bindThen(S, e) ==
    LET p == S.promises[e]
        S1 == addBinding(S, p.key, e, "textContent", p.transform)
    IN [S1 EXCEPT !.promises[e] = Promise(p.key, p.transform, "found", "fulfilled", "cleanup")]

\* waitFor's timer rejects; .catch(error => { console.error(...) }) returns
\* undefined, which fulfils the promise bind() returned
bindCatch(S, e) ==
    LET p == S.promises[e]
    IN [S EXCEPT !.promises[e] =
           Promise(p.key, p.transform, "timedOut", "fulfilled", "undefined")]

\* the cleanup function bind() resolves to: console.log(`Cleanup binding ...`)
cleanup(S, e) == S

----------------------------------------------------------------------------
(* Inputs *)

Pun == Kun                                  \* 'un'
Pu == Ku                                    \* 'u'
Puun == <<"u", ".", "u", "n">>              \* 'u.un'
Puuu == <<"u", ".", "u", ".", "u">>         \* 'u.u.u'

\* createStore({ u: { u: { u: 0 }, un: 0 }, un: 0 })
InitialState == Obj2(Obj2(Obj1(Ku, Num(0)), Num(0)), Num(0))

Scalars == {Num(0), Num(1)}
ObjLit == Obj1(Kun, Num(1))                 \* the literal { un: 1 }

\* the property writes callers make:  state.un = v,  state.u.un = v,
\* state.u.u.u = v  and  state.u = { un: 1 }
WriteInputs ==
    {<<chain, Kun, v>> : chain \in {<<>>, <<Ku>>}, v \in Scalars}
      \cup {<<(<<Ku, Ku>>), Ku, v>> : v \in Scalars}
      \cup {<<(<<>>), Ku, ObjLit>>}

\* the objects callers pass to setState
Partials == {EmptyObj, Obj1(Kun, Num(1)), Obj1(Ku, ObjLit)}

\* what is not a mapping
NonMappings == {Undef, Null, Num(1), Bool(TRUE)}

Elements == {"e1"}
BindKeys == {Pun, Puun, Pu}

\* the elements that have a binding in the registry
BoundElements(bs) ==
    UNION {{bs[j].list[i].element : i \in 1..Len(bs[j].list)} : j \in 1..Len(bs)}

----------------------------------------------------------------------------
(* Utilities: throttle *)

\* the bound on Date.now()
MaxTime == 6

\* throttle(func, limit): limit, in milliseconds, and the default options
Limit == 2
ThrottleOptions == [leading |-> TRUE, trailing |-> TRUE]

\* the arguments callers pass
Args == {1, 2}

\* a timer id: no timer set, or the time from which setTimeout may run the
\* callback that closed over args
NoTimer == [set |-> FALSE, due |-> 0, args |-> 0]
Timer(due, args) == [set |-> TRUE, due |-> due, args |-> args]

\* setTimeout(f, delay): a delay below 0 counts as 0
SetTimeout(t, delay, args) == Timer(t + (IF delay < 0 THEN 0 ELSE delay), args)

\* func.apply(this, args) at time t
Invoke(U, t, args) == [U EXCEPT !.log = Append(@, [at |-> t, args |-> args])]

\* lastRan before its first assignment: undefined, so that Date.now() - lastRan
\* is NaN
NotRan == -1

\* let inThrottle, lastFunc, lastRan  (all undefined)
ThrottleInit == [options |-> ThrottleOptions, inThrottle |-> FALSE,
                 lastFunc |-> NoTimer, lastRan |-> NotRan]

\* throttle(func, limit, { leading: false, trailing: true })
TrailingOnly == [leading |-> FALSE, trailing |-> TRUE]

\* the function throttle returns, called with args at time t
throttled(U, t, args) ==
    IF ~U.thr.inThrottle
    THEN LET U1 == IF U.thr.options.leading
                   THEN [Invoke(U, t, args) EXCEPT !.thr.lastRan = t]
                   ELSE U
         IN [U1 EXCEPT !.thr.inThrottle = TRUE]
    ELSE [U EXCEPT !.thr.lastFunc =
             \* a delay of NaN counts as 0
             IF U.thr.lastRan = NotRan THEN SetTimeout(t, 0, args)
             ELSE SetTimeout(t, Limit - (t - U.thr.lastRan), args)]

\* the callback of lastFunc, run at time t
throttleLater(U, t) ==
    LET args == U.thr.lastFunc.args
        \* NaN >= limit is false
        U1 == IF /\ U.thr.options.trailing
                 /\ U.thr.lastRan # NotRan
                 /\ t - U.thr.lastRan >= Limit
              THEN [Invoke(U, t, args) EXCEPT !.thr.lastRan = t]
              ELSE U
    IN [U1 EXCEPT !.thr.inThrottle = FALSE, !.thr.lastFunc = NoTimer]

----------------------------------------------------------------------------
(* Utilities: debounce *)

\* debounce(func, wait, immediate = false): wait, in milliseconds
Wait == 2
Immediate == FALSE

\* let timeout, result  (result: the arguments of the invocation that produced it)
DebounceInit == [timeout |-> NoTimer, result |-> 0]

\* no call yet
NoCall == [at |-> 0, args |-> 0, burst |-> 0]

\* a call at time t opens a burst unless it comes less than wait after the last one
Called(U, t, args) ==
    [at |-> t, args |-> args,
     burst |-> IF U.lastCall.burst = 0 \/ t - U.lastCall.at >= Wait
               THEN U.lastCall.burst + 1 ELSE U.lastCall.burst]

\* the debounced function that leaves a pending timer alone
debouncedNoReset(U, t, args) ==
    LET U1 == [U EXCEPT !.lastCall = Called(U, t, args)]
    IN IF U.deb.timeout.set THEN U1
       ELSE [U1 EXCEPT !.deb.timeout = SetTimeout(t, Wait, args)]

\* the debounced function, called with args at time t:
\* clearTimeout(timeout); timeout = setTimeout(later, wait)
debounced(U, t, args) ==
    LET callNow == Immediate /\ ~U.deb.timeout.set
        U1 == [U EXCEPT !.deb.timeout = SetTimeout(t, Wait, args),
                        !.lastCall = Called(U, t, args)]
    IN IF callNow THEN [Invoke(U1, t, args) EXCEPT !.deb.result = args] ELSE U1

\* later, run at time t with the args of the call that set the timer
debounceLater(U, t) ==
    LET args == U.deb.timeout.args
        U1 == [U EXCEPT !.deb.timeout = NoTimer]
    IN IF ~Immediate THEN [Invoke(U1, t, args) EXCEPT !.deb.result = args] ELSE U1

----------------------------------------------------------------------------
(* Utilities: router *)

\* the bounds on middleware.push and on the navigate() calls
MaxMiddleware == 2
MaxNavigate == 1

\* the value of  this  in the arrow functions of the object router() returns:
\* the  this  of the call aether.router(options), which is the aether object
RouterThis == "aether"

\* routes.find(route => path.match(route.regex)) for paths without
\* parameters: the index of the first route with that path, 0 for undefined
RECURSIVE FindRoute(_, _, _)
FindRoute(routes, path, i) ==
    IF i > Len(routes) THEN 0
    ELSE IF routes[i].path = path THEN i
    ELSE FindRoute(routes, path, i + 1)

\* const routes = []; const middleware = []; let notFoundHandler = ...;
\* let currentRoute = null (0); let isInitialized = false
RouterInit ==
    [routes |-> <<>>, middleware |-> <<>>, notFoundHandler |-> "default",
     currentRoute |-> 0, isInitialized |-> FALSE, location |-> <<"/">>, ret |-> "none"]

\* executeMiddleware stops at a middleware that returns too much
StopsOnThrowOnly(kind) == kind = "throw"

\* executeMiddleware: result === false, or the catch block, ends the loop with false
Stops(kind) == kind \in {"block", "throw"}

\* checkRoutes() up to executeMiddleware: the path and the matched route
startCheck(R) ==
    [R EXCEPT !.checks = Append(@, [path |-> R.rtr.location,
                                    matched |-> FindRoute(R.rtr.routes, R.rtr.location, 1),
                                    i |-> 1, pc |-> "mw", ran |-> <<>>])]

\* one step of check c: the next middleware and the test of its result, or,
\* after the last one, the route handler or the not-found handler
checkStep(R, c) ==
    LET ck == R.checks[c]
    IN IF ck.i <= Len(R.rtr.middleware)
       THEN LET kind == R.rtr.middleware[ck.i]
                ran == Append(ck.ran, [what |-> "mw", idx |-> ck.i, kind |-> kind])
            IN IF Stops(kind)
               THEN [R EXCEPT !.checks[c].ran = ran, !.checks[c].pc = "done"]
               ELSE [R EXCEPT !.checks[c].ran = ran, !.checks[c].i = ck.i + 1]
       ELSE IF ck.matched # 0
       THEN LET handler == R.rtr.routes[ck.matched].handler
                ran == Append(ck.ran, [what |-> "handler", idx |-> ck.matched,
                                       kind |-> handler])
            IN [R EXCEPT !.rtr.currentRoute = ck.matched,
                         !.checks[c].pc = "done",
                         !.checks[c].ran =
                             IF handler = "throws"
                             THEN Append(ran, [what |-> "notFound", idx |-> 0,
                                               kind |-> R.rtr.notFoundHandler])
                             ELSE ran]
       ELSE [R EXCEPT !.rtr.currentRoute = 0,
                      !.checks[c].pc = "done",
                      !.checks[c].ran = Append(ck.ran, [what |-> "notFound", idx |-> 0,
                                                        kind |-> R.rtr.notFoundHandler])]

\* router.add(path, handler)
routerAdd(R, path, handler) ==
    [R EXCEPT !.rtr.routes = Append(@, [path |-> path, handler |-> handler]),
              !.rtr.ret = RouterThis]

\* router.use(middlewareFn)
routerUse(R, kind) ==
    [R EXCEPT !.rtr.middleware = Append(@, kind), !.rtr.ret = RouterThis]

\* router.setNotFound(handler)
routerSetNotFound(R) ==
    [R EXCEPT !.rtr.notFoundHandler = "custom", !.rtr.ret = RouterThis]

\* router.navigate(path): pushState, checkRoutes(), return this
routerNavigate(R, path) ==
    [startCheck([R EXCEPT !.rtr.location = path]) EXCEPT !.rtr.ret = RouterThis]

\* router.init()
routerInit(R) ==
    IF R.rtr.isInitialized THEN [R EXCEPT !.rtr.ret = RouterThis]
    ELSE [startCheck([R EXCEPT !.rtr.isInitialized = TRUE]) EXCEPT !.rtr.ret = RouterThis]

----------------------------------------------------------------------------
(* DOM & Observation: waitFor *)

\* the waitFor calls that are followed
Waiters == {"w1", "w2"}

\* settles is the history of the resolve and reject calls of the executor
NoWait == [called |-> FALSE, settled |-> "", observing |-> FALSE,
           timeoutId |-> NoTimer, settles |-> <<>>]

\* resolve(el) / reject(error): only the first call settles the promise
Settle(p, how) ==
    [p EXCEPT !.settled = IF @ = "pending"
                          THEN (IF how = "resolve" THEN "resolved" ELSE "rejected")
                          ELSE @,
              !.settles = Append(@, how)]

\* new Promise((resolve, reject) => { ... }) of waitFor(selector, timeout)
waitFor(U, w, timeout) ==
    LET p == [NoWait EXCEPT !.called = TRUE, !.settled = "pending"]
    IN IF U.matching
       THEN [U EXCEPT !.waits[w] = Settle(p, "resolve")]
       ELSE [U EXCEPT !.waits[w] =
                [p EXCEPT !.observing = TRUE,
                          !.timeoutId = SetTimeout(U.clock, timeout, 0)]]

\* the MutationObserver callback: clearTimeout, disconnect and resolve when the
\* selector matches
observerCallback(U, w) ==
    IF U.matching
    THEN [U EXCEPT !.waits[w] =
             Settle([@ EXCEPT !.timeoutId = NoTimer, !.observing = FALSE], "resolve")]
    ELSE U

\* the setTimeout callback: disconnect and reject
timeoutCallback(U, w) ==
    [U EXCEPT !.waits[w] =
        Settle([@ EXCEPT !.timeoutId = NoTimer, !.observing = FALSE], "reject")]

\* a mutation of the child list under document.body: the callback of every
\* observer that is observing runs before any other task
RECURSIVE NotifyObservers(_, _)
NotifyObservers(U, ws) ==
    IF ws = {} THEN U
    ELSE LET w == CHOOSE x \in ws : TRUE
         IN NotifyObservers(IF U.waits[w].observing THEN observerCallback(U, w) ELSE U,
                            ws \ {w})

----------------------------------------------------------------------------
(* The singleton store *)

\* the bound on the createStore calls
MaxStores == 2

\* no bind() call waits for the element; from is the value of stateStore when
\* bind was called
NoBind == [waiting |-> FALSE, key |-> EmptyStr, from |-> 0]

ModuleCur == [stateStore |-> stateStore, stores |-> stores, pending |-> pending,
              elements |-> elements]

\* the store number i as the record the store operators work on
StoreOf(M, i) ==
    [Cur EXCEPT !.state = M.stores[i].state, !.bindings = M.stores[i].bindings,
                !.elements = M.elements]

\* the module state after an operation on store number i left S
WithStore(M, i, S) ==
    [M EXCEPT !.stores[i] = [state |-> S.state, bindings |-> S.bindings],
              !.elements = S.elements]

\* createStore that keeps an existing singleton
createStoreKeepsFirst(M) ==
    [M EXCEPT !.stores = Append(@, [state |-> InitialState, bindings |-> <<>>]),
              !.stateStore = IF @ = 0 THEN 1 ELSE @]

\* createStore(initialState): ... stateStore = store; return store
createStore(M) ==
    [M EXCEPT !.stores = Append(@, [state |-> InitialState, bindings |-> <<>>]),
              !.stateStore = Len(M.stores) + 1]

\* bind(element, stateKey) up to waitFor(...).then(...)
bindCall(M, e, key) ==
    [M EXCEPT !.pending[e] = [waiting |-> TRUE, key |-> key, from |-> M.stateStore]]

\* the then callback of bind: stateStore._addBinding(stateKey, element, prop)
bindRegister(M, e) ==
    [WithStore(M, M.stateStore,
               addBinding(StoreOf(M, M.stateStore), M.pending[e].key, e,
                          "textContent", "none"))
        EXCEPT !.pending[e] = NoBind]

\* the setInterval callback: stateStore._cleanupBindings()
periodicCleanup(M) ==
    IF M.stateStore # 0
    THEN WithStore(M, M.stateStore, cleanupBindings(StoreOf(M, M.stateStore)))
    ELSE M

UtilCur == [thr |-> thr, deb |-> deb, lastCall |-> lastCall, log |-> log,
            rtr |-> rtr, checks |-> checks, clock |-> clock,
            matching |-> matching, waits |-> waits]

\* a timer whose time has come: it runs before the next call and before the
\* next millisecond
TimerDue ==
    \/ thr.lastFunc.set /\ clock >= thr.lastFunc.due
    \/ deb.timeout.set /\ clock >= deb.timeout.due
    \/ \E w \in DOMAIN waits : waits[w].timeoutId.set /\ clock >= waits[w].timeoutId.due

UtilInit ==
    /\ clock = 0
    /\ thr = ThrottleInit
    /\ deb = DebounceInit
    /\ lastCall = NoCall
    /\ log = <<>>
    /\ rtr = RouterInit
    /\ checks = <<>>
    /\ matching = FALSE
    /\ waits = [w \in Waiters |-> NoWait]
    /\ stateStore = 0
    /\ stores = <<>>
    /\ pending = [e \in DOMAIN elements |-> NoBind]

----------------------------------------------------------------------------
(* Actions *)

Commit(S) ==
    /\ state' = S.state
    /\ subscribers' = S.subscribers
    /\ bindings' = S.bindings
    /\ updateQueue' = S.updateQueue
    /\ isUpdating' = S.isUpdating
    /\ rafPending' = S.rafPending
    /\ elements' = S.elements
    /\ handles' = S.handles
    /\ promises' = S.promises
    /\ calls' = S.calls
    /\ cbWrites' = S.cbWrites
    /\ applied' = S.applied
    /\ UNCHANGED utilVars
    /\ UNCHANGED moduleVars

\* the store as the next operation finds it; the history of the last flush is dropped
Now == [Cur EXCEPT !.calls = <<>>, !.cbWrites = {}, !.applied = <<>>]

Op(op, arg, threw) == [op |-> op, arg |-> arg, threw |-> threw]
NoOp == Op("", "", FALSE)

\* state.k1...kn.property = value, from code running outside a flush
WriteStep(chain, property, value) ==
    LET px == Read(Cur, chain)
    IN /\ IsProxy(px)
       /\ LET old == GetProp(TargetOf(state, px.chain), property)
              changed == ~StrictEq(old, value)
              path == PathJoin(px.path, property)
          IN /\ (changed /\ ~isUpdating) => rafPending < MaxRaf
             /\ changed => (path \in windowWrites \/ Cardinality(windowWrites) < MaxWindow)
             /\ Commit(HandlerSet(Now, px, property, value))
             /\ windowWrites' = IF changed
                                THEN windowWrites \cup {PathJoin(px.path, property)}
                                ELSE windowWrites

PropertyWrite(chain, property, value) ==
    WriteStep(chain, property, value) /\ lastOp' = NoOp

\* the same write, remembered in lastOp when the value written was equal to the old one
TracedWrite(chain, property, value) ==
    /\ WriteStep(chain, property, value)
    /\ lastOp' = IF StrictEq(GetProp(TargetOf(state, chain), property), value)
                 THEN Op("write", "same", FALSE) ELSE NoOp

\* store.setState(newState, {merge})
SetState(newState, merge) ==
    /\ rafPending < MaxRaf
    /\ LET S == setState(Now, newState, merge)
       IN /\ Commit(S)
          /\ lastOp' = IF newState.t = "obj" THEN NoOp
                       ELSE Op("setState", "nonmapping", S.threw)
    /\ UNCHANGED windowWrites

\* the browser runs one pending animation-frame callback
Flush ==
    /\ rafPending > 0
    /\ Commit(processUpdates([Now EXCEPT !.rafPending = rafPending - 1]))
    /\ windowWrites' = {}
    /\ lastOp' = NoOp

\* store.subscribe(callback)
Subscribe(s) ==
    /\ LET S == subscribe(Now, s)
       IN /\ Commit(S)
          /\ lastOp' = IF IsFunction(s) THEN NoOp
                       ELSE Op("subscribe", "nonfunction", S.threw)
    /\ UNCHANGED windowWrites

\* store._addBinding(key, element, 'textContent', transform), for an element
\* that is not bound yet
AddBinding(key, e, transform) ==
    /\ e \notin BoundElements(bindings)
    /\ Commit(addBinding(Now, key, e, "textContent", transform))
    /\ lastOp' = NoOp
    /\ UNCHANGED windowWrites

Init ==
    /\ state = InitialState
    /\ subscribers = <<>>
    /\ bindings = <<>>
    /\ updateQueue = <<>>
    /\ isUpdating = FALSE
    /\ rafPending = 0
    /\ elements = [e \in Elements |-> [isConnected |-> TRUE, textContent |-> Undef]]
    /\ handles = {}
    /\ promises = [e \in Elements |-> NoPromise]
    /\ calls = <<>>
    /\ cbWrites = {}
    /\ windowWrites = {}
    /\ applied = <<>>
    /\ lastOp = NoOp
    /\ UtilInit

Next ==
    \/ \E w \in WriteInputs : PropertyWrite(w[1], w[2], w[3])
    \/ \E newState \in Partials, merge \in BOOLEAN : SetState(newState, merge)
    \/ Flush
    \/ \E s \in Subs : Subscribe(s)
    \/ \E key \in BindKeys, e \in Elements, transform \in Transforms :
          AddBinding(key, e, transform)

Spec == Init /\ [][Next]_vars

\* the store with several elements to bind
ManyElements == {"e1", "e2"}
ManyBindKeys == {Puun, Pu}
ManyTransforms == {"none", "throwOn1"}
ManyWrites == {<<(<<Ku>>), Kun, v>> : v \in Scalars}

InitBind ==
    /\ state = InitialState
    /\ subscribers = <<>>
    /\ bindings = <<>>
    /\ updateQueue = <<>>
    /\ isUpdating = FALSE
    /\ rafPending = 0
    /\ elements = [e \in ManyElements |-> [isConnected |-> TRUE, textContent |-> Undef]]
    /\ handles = {}
    /\ promises = [e \in ManyElements |-> NoPromise]
    /\ calls = <<>>
    /\ cbWrites = {}
    /\ windowWrites = {}
    /\ applied = <<>>
    /\ lastOp = NoOp
    /\ UtilInit

\* element.remove()
Detach(e) ==
    /\ elements[e].isConnected
    /\ Commit([Now EXCEPT !.elements[e].isConnected = FALSE])
    /\ lastOp' = NoOp
    /\ UNCHANGED windowWrites

\* parent.appendChild(element)
Attach(e) ==
    /\ ~elements[e].isConnected
    /\ Commit([Now EXCEPT !.elements[e].isConnected = TRUE])
    /\ lastOp' = NoOp
    /\ UNCHANGED windowWrites

\* setInterval(() => stateStore._cleanupBindings(), 30000)
Cleanup ==
    /\ LET S == cleanupBindings(Now)
       IN /\ Commit(S)
          /\ lastOp' = Op("cleanup", IF S.bindings # bindings THEN "removed" ELSE "none",
                          FALSE)
    /\ UNCHANGED windowWrites

\* several bound elements that come and go, the second transform throwing
NextBind ==
    \/ \E w \in ManyWrites : PropertyWrite(w[1], w[2], w[3])
    \/ Flush
    \/ \E key \in ManyBindKeys, e \in ManyElements, transform \in ManyTransforms :
          AddBinding(key, e, transform)
    \/ \E e \in ManyElements : Detach(e)
    \/ \E e \in ManyElements : Attach(e)
    \/ Cleanup

SpecBind == InitBind /\ [][NextBind]_vars

\* aether.bind('#e', key, { transform }), at most one call per element
BindCall(key, e, transform) ==
    /\ promises[e] = NoPromise
    /\ e \notin BoundElements(bindings)
    /\ Commit(bind(Now, e, key, transform))
    /\ lastOp' = NoOp
    /\ UNCHANGED windowWrites

\* document.querySelector(selector) finds the element, at once or in the
\* MutationObserver callback
BindFound(e) ==
    /\ promises[e].wait = "waiting"
    /\ elements[e].isConnected
    /\ Commit(bindThen(Now, e))
    /\ lastOp' = NoOp
    /\ UNCHANGED windowWrites

\* the setTimeout of waitFor fires before the element is in the document
BindTimeout(e) ==
    /\ promises[e].wait = "waiting"
    /\ ~elements[e].isConnected
    /\ Commit(bindCatch(Now, e))
    /\ lastOp' = NoOp
    /\ UNCHANGED windowWrites

\* const off = await aether.bind(...); off()
Dispose(e) ==
    /\ promises[e].value = "cleanup"
    /\ Commit(cleanup(Now, e))
    /\ lastOp' = Op("dispose", e, FALSE)
    /\ UNCHANGED windowWrites

\* bind() on elements that are or are not in the document
ApiBindKeys == {Puun}
ApiTransforms == {"none"}

NextApi ==
    \/ \E w \in ManyWrites : PropertyWrite(w[1], w[2], w[3])
    \/ Flush
    \/ \E key \in ApiBindKeys, e \in ManyElements, transform \in ApiTransforms :
          BindCall(key, e, transform)
    \/ \E e \in ManyElements : BindFound(e)
    \/ \E e \in ManyElements : BindTimeout(e)
    \/ \E e \in ManyElements : Dispose(e)
    \/ \E e \in ManyElements : Detach(e)
    \/ \E e \in ManyElements : Attach(e)

SpecApi == InitBind /\ [][NextApi]_vars

\* a millisecond passes
Tick ==
    /\ clock < MaxTime
    /\ ~TimerDue
    /\ clock' = clock + 1
    /\ UNCHANGED <<thr, deb, lastCall, log, rtr, checks, matching, waits>>
    /\ UNCHANGED storeVars
    /\ UNCHANGED moduleVars

UtilCommit(U) ==
    /\ thr' = U.thr
    /\ deb' = U.deb
    /\ lastCall' = U.lastCall
    /\ log' = U.log
    /\ rtr' = U.rtr
    /\ checks' = U.checks
    /\ matching' = U.matching
    /\ waits' = U.waits
    /\ UNCHANGED storeVars
    /\ UNCHANGED moduleVars

\* a call of the throttled function
ThrottledCall(args) ==
    /\ ~TimerDue
    /\ UtilCommit(throttled(UtilCur, clock, args))
    /\ UNCHANGED clock

\* the timer lastFunc fires, at its due time or later
ThrottleTimer ==
    /\ thr.lastFunc.set /\ clock >= thr.lastFunc.due
    /\ UtilCommit(throttleLater(UtilCur, clock))
    /\ UNCHANGED clock

NextThrottle ==
    \/ \E args \in Args : ThrottledCall(args)
    \/ ThrottleTimer
    \/ Tick

SpecThrottle == Init /\ [][NextThrottle]_vars

\* the bound on the calls of the throttled function that are counted
MaxCalls == 3

\* the throttled function created with leading disabled
InitTrailing ==
    /\ state = InitialState
    /\ subscribers = <<>>
    /\ bindings = <<>>
    /\ updateQueue = <<>>
    /\ isUpdating = FALSE
    /\ rafPending = 0
    /\ elements = [e \in Elements |-> [isConnected |-> TRUE, textContent |-> Undef]]
    /\ handles = {}
    /\ promises = [e \in Elements |-> NoPromise]
    /\ calls = <<>>
    /\ cbWrites = {}
    /\ windowWrites = {}
    /\ applied = <<>>
    /\ lastOp = NoOp
    /\ clock = 0
    /\ thr = [ThrottleInit EXCEPT !.options = TrailingOnly]
    /\ deb = DebounceInit
    /\ lastCall = NoCall
    /\ log = <<>>
    /\ rtr = RouterInit
    /\ checks = <<>>
    /\ matching = FALSE
    /\ waits = [w \in Waiters |-> NoWait]
    /\ stateStore = 0
    /\ stores = <<>>
    /\ pending = [e \in DOMAIN elements |-> NoBind]

\* a call of the throttled function, counted
CountedCall(args) ==
    /\ ~TimerDue
    /\ lastCall.burst < MaxCalls
    /\ UtilCommit([throttled(UtilCur, clock, args) EXCEPT
                      !.lastCall = [at |-> clock, args |-> args,
                                    burst |-> lastCall.burst + 1]])
    /\ UNCHANGED clock

NextTrailing ==
    \/ \E args \in Args : CountedCall(args)
    \/ ThrottleTimer
    \/ Tick

\* timers run, and time passes up to MaxTime
SpecTrailing ==
    /\ InitTrailing
    /\ [][NextTrailing]_vars
    /\ WF_vars(ThrottleTimer)
    /\ WF_vars(Tick)

\* a call of the debounced function
DebouncedCall(args) ==
    /\ ~TimerDue
    /\ UtilCommit(debounced(UtilCur, clock, args))
    /\ UNCHANGED clock

\* the timer timeout fires
DebounceTimer ==
    /\ deb.timeout.set /\ clock >= deb.timeout.due
    /\ UtilCommit(debounceLater(UtilCur, clock))
    /\ UNCHANGED clock

NextDebounce ==
    \/ \E args \in Args : DebouncedCall(args)
    \/ DebounceTimer
    \/ Tick

SpecDebounce == Init /\ [][NextDebounce]_vars

ModuleCommit(M) ==
    /\ stateStore' = M.stateStore
    /\ stores' = M.stores
    /\ pending' = M.pending
    /\ elements' = M.elements
    /\ UNCHANGED <<state, subscribers, bindings, updateQueue, isUpdating, rafPending,
                   handles, promises, calls, cbWrites, windowWrites, applied>>
    /\ UNCHANGED utilVars

\* aether.createStore(initialState)
CreateStore ==
    /\ Len(stores) < MaxStores
    /\ ModuleCommit(createStore(ModuleCur))
    /\ lastOp' = NoOp

\* the elements bound in some store
BoundAnywhere == UNION {BoundElements(stores[i].bindings) : i \in 1..Len(stores)}

\* aether.bind(element, stateKey), for an element not bound before; without a
\* store bind throws
SingletonBind(e, key) ==
    /\ stateStore # 0
    /\ ~pending[e].waiting
    /\ e \notin BoundAnywhere
    /\ ModuleCommit(bindCall(ModuleCur, e, key))
    /\ lastOp' = NoOp

\* waitFor resolves with the element
SingletonBindFound(e) ==
    /\ pending[e].waiting
    /\ ModuleCommit(bindRegister(ModuleCur, e))
    /\ lastOp' = Op("bind", e, FALSE)

\* the cleanup interval elapses
PeriodicCleanup ==
    /\ LET M == periodicCleanup(ModuleCur)
       IN /\ ModuleCommit(M)
          /\ lastOp' = Op("cleanup", IF M.stores # stores THEN "removed" ELSE "none",
                          FALSE)

NextStores ==
    \/ CreateStore
    \/ \E e \in ManyElements, key \in ManyBindKeys : SingletonBind(e, key)
    \/ \E e \in ManyElements : SingletonBindFound(e)
    \/ PeriodicCleanup
    \/ \E e \in ManyElements : Detach(e)
    \/ \E e \in ManyElements : Attach(e)

SpecStores == InitBind /\ [][NextStores]_vars

\* writes, setState calls that may throw, and flushes in which a subscriber
\* or a transform throws
FlagWrites == {<<chain, Kun, v>> : chain \in {<<>>, <<Ku>>}, v \in Scalars}
FlagStates == {Obj1(Kun, Num(1)), Obj1(Ku, ObjLit), Undef, Null}
FlagSubs == {"s2", "s3"}
FlagBindKeys == {Puun}

NextFlag ==
    \/ \E w \in FlagWrites : PropertyWrite(w[1], w[2], w[3])
    \/ \E newState \in FlagStates, merge \in BOOLEAN : SetState(newState, merge)
    \/ Flush
    \/ \E s \in FlagSubs : Subscribe(s)
    \/ \E key \in FlagBindKeys, e \in Elements, transform \in ManyTransforms :
          AddBinding(key, e, transform)

SpecFlag == Init /\ [][NextFlag]_vars

\* the timeouts callers pass to waitFor
WaitTimeouts == {1, 3}

\* aether.waitFor(selector, timeout)
WaitFor(w, timeout) ==
    /\ ~waits[w].called
    /\ ~TimerDue
    /\ UtilCommit(waitFor(UtilCur, w, timeout))
    /\ UNCHANGED clock

\* a node is added to or removed from the subtree of document.body, after
\* which the selector matches (found) or does not; the observers are notified
ChildListMutation(found) ==
    /\ ~TimerDue
    /\ UtilCommit(NotifyObservers([UtilCur EXCEPT !.matching = found], Waiters))
    /\ UNCHANGED clock

\* an attribute of an element changes (id, class, ...), after which the
\* selector matches or does not; observers of childList are not notified
AttributeMutation(found) ==
    /\ ~TimerDue
    /\ matching # found
    /\ UtilCommit([UtilCur EXCEPT !.matching = found])
    /\ UNCHANGED clock

\* the timer of wait w runs
WaitTimeout(w) ==
    /\ waits[w].timeoutId.set
    /\ clock >= waits[w].timeoutId.due
    /\ UtilCommit(timeoutCallback(UtilCur, w))
    /\ UNCHANGED clock

NextWait ==
    \/ Tick
    \/ \E w \in Waiters, timeout \in WaitTimeouts : WaitFor(w, timeout)
    \/ \E found \in BOOLEAN : ChildListMutation(found)
    \/ \E found \in BOOLEAN : AttributeMutation(found)
    \/ \E w \in Waiters : WaitTimeout(w)

SpecWait == Init /\ [][NextWait]_vars

\* the routes, middleware and paths callers use
RouteInputs == {<<(<<"/">>), "ok">>, <<(<<"/", "a">>), "throws">>}
MiddlewareKinds == {"pass", "block", "throw"}
NavPaths == {<<"/", "a">>, <<"/", "x">>}

RouterAdd(path, handler) ==
    /\ FindRoute(rtr.routes, path, 1) = 0
    /\ UtilCommit(routerAdd(UtilCur, path, handler))
    /\ UNCHANGED clock

RouterUse(kind) ==
    /\ Len(rtr.middleware) < MaxMiddleware
    /\ UtilCommit(routerUse(UtilCur, kind))
    /\ UNCHANGED clock

RouterSetNotFound ==
    /\ rtr.notFoundHandler = "default"
    /\ UtilCommit(routerSetNotFound(UtilCur))
    /\ UNCHANGED clock

RouterNavigate(path) ==
    /\ Len(checks) < MaxNavigate + (IF rtr.isInitialized THEN 1 ELSE 0)
    /\ UtilCommit(routerNavigate(UtilCur, path))
    /\ UNCHANGED clock

\* a second init() only warns
RouterInitCall ==
    /\ ~rtr.isInitialized
    /\ UtilCommit(routerInit(UtilCur))
    /\ UNCHANGED clock

\* the continuation of check c after an await
CheckStep(c) ==
    /\ checks[c].pc = "mw"
    /\ UtilCommit(checkStep(UtilCur, c))
    /\ UNCHANGED clock

NextRouter ==
    \/ \E r \in RouteInputs : RouterAdd(r[1], r[2])
    \/ \E kind \in MiddlewareKinds : RouterUse(kind)
    \/ RouterSetNotFound
    \/ \E path \in NavPaths : RouterNavigate(path)
    \/ RouterInitCall
    \/ \E c \in 1..(MaxNavigate + 1) : c <= Len(checks) /\ CheckStep(c)

SpecRouter == Init /\ [][NextRouter]_vars

\* route checks under the default not-found handler
NextGate ==
    \/ \E r \in RouteInputs : RouterAdd(r[1], r[2])
    \/ \E kind \in MiddlewareKinds : RouterUse(kind)
    \/ \E path \in NavPaths : RouterNavigate(path)
    \/ RouterInitCall
    \/ \E c \in 1..(MaxNavigate + 1) : c <= Len(checks) /\ CheckStep(c)

SpecGate == Init /\ [][NextGate]_vars

\* router.navigate(path) on a router that is not initialised: one navigation
\* more takes the place of the check of init()
OverlapNavigate(path) ==
    /\ Len(checks) <= MaxNavigate
    /\ UtilCommit(routerNavigate(UtilCur, path))
    /\ UNCHANGED clock

\* navigations whose route checks overlap
NextOverlap ==
    \/ \E r \in RouteInputs : RouterAdd(r[1], r[2])
    \/ \E kind \in MiddlewareKinds : RouterUse(kind)
    \/ \E path \in NavPaths : OverlapNavigate(path)
    \/ \E c \in 1..(MaxNavigate + 1) : c <= Len(checks) /\ CheckStep(c)

SpecOverlap == Init /\ [][NextOverlap]_vars

\* calling the handle that subscribe(s) returned
Unsubscribe(s) ==
    /\ s \in handles
    /\ LET S == unsubscribe(Now, s)
       IN /\ Commit(S)
          /\ lastOp' = Op("unsubscribe", IF s \in Range(subscribers) THEN "first" ELSE "again",
                          S.threw)
    /\ UNCHANGED windowWrites

\* callbacks that throw or unsubscribe themselves, callbacks that come and go
ManySubs == {"s1", "s2", "s3", "s4"}
SubBindKeys == {Puun}
SubTransforms == {"none"}

NextSub ==
    \/ \E w \in ManyWrites : PropertyWrite(w[1], w[2], w[3])
    \/ Flush
    \/ \E s \in ManySubs : Subscribe(s)
    \/ \E s \in ManySubs : Unsubscribe(s)
    \/ \E key \in SubBindKeys, e \in Elements, transform \in SubTransforms :
          AddBinding(key, e, transform)

SpecSub == Init /\ [][NextSub]_vars

\* subscribers and bindings notified in the same flush
OrderPartials == {EmptyObj}
OrderBindKeys == {Puun, Pun}

NextOrder ==
    \/ \E w \in ManyWrites : PropertyWrite(w[1], w[2], w[3])
    \/ \E newState \in OrderPartials : SetState(newState, TRUE)
    \/ Flush
    \/ \E s \in Subs : Subscribe(s)
    \/ \E key \in OrderBindKeys, e \in Elements : AddBinding(key, e, "none")

SpecOrder == Init /\ [][NextOrder]_vars

\* writes of every kind, from callers and from a callback, and no bindings
NextRead ==
    \/ \E w \in WriteInputs : PropertyWrite(w[1], w[2], w[3])
    \/ \E newState \in Partials, merge \in BOOLEAN : SetState(newState, merge)
    \/ Flush
    \/ \E s \in Subs : Subscribe(s)

SpecRead == Init /\ [][NextRead]_vars

\* a callback that unsubscribes another one during the flush
OtherSubs == {"s1", "s5"}

NextUnsub ==
    \/ \E w \in ManyWrites : PropertyWrite(w[1], w[2], w[3])
    \/ Flush
    \/ \E s \in OtherSubs : Subscribe(s)
    \/ \E s \in OtherSubs : Unsubscribe(s)
    \/ \E key \in SubBindKeys, e \in Elements, transform \in Transforms :
          AddBinding(key, e, transform)

SpecUnsub == Init /\ [][NextUnsub]_vars

\* bindings on related and unrelated key paths, with and without a transform
RelWrites == {<<(<<Ku>>), Kun, v>> : v \in Scalars} \cup {<<(<<>>), Ku, ObjLit>>}

NextRel ==
    \/ \E w \in RelWrites : PropertyWrite(w[1], w[2], w[3])
    \/ Flush
    \/ \E key \in BindKeys, e \in ManyElements, transform \in Transforms :
          AddBinding(key, e, transform)

SpecRel == InitBind /\ [][NextRel]_vars

\* the store called with well-formed and malformed arguments
ArgWrites == {<<chain, Kun, v>> : chain \in {<<>>, <<Ku>>}, v \in Scalars}
ArgSubs == {"s1"}
ArgBindKeys == {Puun}
NextArgs ==
    \/ \E w \in ArgWrites : TracedWrite(w[1], w[2], w[3])
    \/ \E newState \in Partials \cup NonMappings, merge \in BOOLEAN :
          SetState(newState, merge)
    \/ Flush
    \/ \E s \in ArgSubs \cup NonFunctions : Subscribe(s)
    \/ \E key \in ArgBindKeys, e \in Elements : AddBinding(key, e, "none")

SpecArgs == Init /\ [][NextArgs]_vars

----------------------------------------------------------------------------
(* Properties *)

Quiescent == rafPending = 0 /\ updateQueue = <<>>

\* every binding (key, b) of the registry satisfies P
AllBindings(P(_, _)) ==
    \A j \in 1..Len(bindings) : \A i \in 1..Len(bindings[j].list) :
        P(bindings[j].key, bindings[j].list[i])

InSync(key, b) ==
    elements[b.element].isConnected =>
        elements[b.element].textContent = ApplyTransform(b.transform, getNested(state, key))

\* C1: once every armed flush has run and nothing is pending, every binding
\* whose element is connected shows transform(current value at its key path).
C1_BindingsInSync == Quiescent => AllBindings(InSync)

\* C2: the changed-path list a flush passes to subscribers contains every
\* distinct path written (with a change of value) in the window, exactly once.
C2_CoalescedUnion ==
    [][Flush => \A i \in 1..Len(calls') : \A p \in windowWrites :
                    Count(calls'[i].keys, p) = 1]_vars

\* a property write that changed a value
ChangingWrite(chain, property, value) ==
    /\ ~StrictEq(GetProp(TargetOf(state, chain), property), value)
    /\ PropertyWrite(chain, property, value)

\* C3: value-changing property writes with no flush in between lead to exactly
\* one flush: after each of them exactly one flush callback is waiting to run.
C3_OneFlushPerWindow ==
    [][(\E w \in WriteInputs : ChangingWrite(w[1], w[2], w[3])) => rafPending' = 1]_vars

\* C4: a path whose value a subscriber changed during a flush is in the pending
\* set when that flush ends, and a flush is armed to deliver it.
C4_CallbackWritesQueued ==
    \A p \in cbWrites : p \in Range(updateQueue) /\ rafPending >= 1

\* C5: at most one animation-frame flush callback is pending for the store.
C5_AtMostOneFlushArmed == rafPending <= 1

\* C6: no subscriber is invoked with an empty changed-path list.
C6_NonEmptyChangedKeys == \A i \in 1..Len(calls) : calls[i].keys # <<>>

\* C7: setState(newState, {merge:false}) enqueues the sentinel '' and no other
\* path, and leaves exactly one flush to run (each subscriber is invoked once),
\* whether or not a flush was armed before the call.
C7_ReplaceNotifiesOnce ==
    [][\A P \in Partials : SetState(P, FALSE) =>
          /\ EmptyStr \in Range(updateQueue')
          /\ Range(updateQueue') \ Range(updateQueue) \subseteq {EmptyStr}
          /\ rafPending' = 1]_vars

\* C8: setState(partial) with merge enabled enqueues each top-level key of
\* partial whose value changed.
C8_MergeReportsKeys ==
    [][\A P \in Partials : SetState(P, TRUE) =>
          \A k \in DOMAIN P.f :
              ~StrictEq(GetProp(state, k), P.f[k]) => k \in Range(updateQueue')]_vars

\* C9: after a merging setState(P) the state has every key of S not in P with
\* its old value and every key of P with P's value; after setState(P,
\* {merge:false}) it has exactly the keys and values of P.
C9_MergeReplaceResult ==
    [][\A P \in Partials, merge \in BOOLEAN : SetState(P, merge) =>
          IF merge
          THEN /\ DOMAIN state'.f = DOMAIN state.f \cup DOMAIN P.f
               /\ \A k \in DOMAIN P.f : state'.f[k] = P.f[k]
               /\ \A k \in DOMAIN state.f \ DOMAIN P.f : state'.f[k] = state.f[k]
          ELSE state' = P]_vars

\* a replacement by { un: 1 } has removed the key 'u' of the initial state
C9_Witness == state = Obj1(Kun, Num(1)) /\ EmptyStr \in Range(updateQueue)

\* 'k1.k2. ... .kn'
RECURSIVE Dotted(_)
Dotted(ks) ==
    IF Len(ks) = 1 THEN ks[1] ELSE ks[1] \o <<".">> \o Dotted(Tail(ks))

Segments(p) == IF p = EmptyStr THEN <<>> ELSE Split(p)
IsPrefix(a, b) == Len(a) <= Len(b) /\ SubSeq(b, 1, Len(a)) = a
SegRelated(K, C) ==
    IsPrefix(Segments(K), Segments(C)) \/ IsPrefix(Segments(C), Segments(K))

\* C11: a flush calls the transform of a binding, or writes its element, only
\* if some changed path of that flush is related to the binding's key path by
\* dot-segment prefix.
C11_SegmentExact ==
    [][Flush => \A i \in 1..Len(applied') :
                   (applied'[i].called \/ applied'[i].written) =>
                       \E j \in 1..Len(updateQueue) :
                           SegRelated(applied'[i].entry.key, updateQueue[j])]_vars

\* the binding (K, b) was applied in the flush that just ran
AppliedInFlush(K, b) ==
    \E i \in 1..Len(applied) :
        /\ applied[i].entry.key = K
        /\ applied[i].entry.element = b.element
        /\ applied[i].entry.phase = "flush"

\* C12: in a flush whose changed-path list contains C, every connected binding
\* on a key path K with K a dot-segment prefix of C, or C of K, is applied, and
\* its element then shows the (transformed) current value at K.
C12_PrefixRefresh ==
    [][Flush => AllBindings(LAMBDA K, b :
          (/\ elements[b.element].isConnected
           /\ \E j \in 1..Len(updateQueue) : SegRelated(K, updateQueue[j]))
          => /\ AppliedInFlush(K, b)'
             /\ ~TransformThrows(b.transform, getNested(state', K)) =>
                   elements'[b.element].textContent =
                       ApplyTransform(b.transform, getNested(state', K)))]_vars

\* the binding on 'u.un' was written in a flush because 'u' was replaced
C12_Witness ==
    \E i \in 1..Len(applied) :
        /\ applied[i].entry = [key |-> Puun, element |-> "e1", on |-> Pu, phase |-> "flush"]
        /\ applied[i].written
        /\ elements["e1"].textContent \in {Num(1), Num(11)}

\* C13: a write whose value is strictly equal to the old one adds nothing to
\* the pending set, arms no flush and notifies no subscriber and no binding.
C13_SameWriteSilent ==
    [][\A w \in ArgWrites :
          (/\ StrictEq(GetProp(TargetOf(state, w[1]), w[2]), w[3])
           /\ TracedWrite(w[1], w[2], w[3]))
          => /\ UNCHANGED <<state, updateQueue, isUpdating, rafPending, elements>>
             /\ calls' = <<>>
             /\ applied' = <<>>]_vars

\* an equal value was written over a bound key while no flush was armed
C13_Witness ==
    /\ lastOp = Op("write", "same", FALSE)
    /\ rafPending = 0
    /\ bindings # <<>>
    /\ subscribers # <<>>

\* C14: setState given a non-mapping throws to its caller.
C14_SetStateRejects == lastOp.op = "setState" => lastOp.threw

\* C15: subscribe(x) with x not a function throws and leaves the subscriber
\* set, and so its size, unchanged.
C15_SubscribeRejects ==
    [][\A x \in NonFunctions : Subscribe(x) =>
          /\ lastOp'.threw
          /\ subscribers' = subscribers
          /\ Len(subscribers') = Len(subscribers)]_vars

\* a non-function was refused while a callback was subscribed
C15_Witness == lastOp = Op("subscribe", "nonfunction", TRUE) /\ Len(subscribers) = 1

\* C16: registering a binding applies transform(current value at the key
\* path) to the element exactly once, adds nothing to the pending set and
\* arms no flush.
C16_InitialBindSilent ==
    [][\A key \in BindKeys, e \in ManyElements, transform \in Transforms :
          AddBinding(key, e, transform) =>
             /\ Len(applied') = 1
             /\ applied'[1].entry = [key |-> key, element |-> e, on |-> key, phase |-> "bind"]
             /\ applied'[1].written
             /\ applied'[1].called = (transform # "none")
             /\ elements'[e].textContent = ApplyTransform(transform, getNested(state, key))
             /\ UNCHANGED <<state, updateQueue, rafPending, isUpdating, subscribers>>
             /\ calls' = <<>>]_vars

\* a binding with a transform was registered on a changed value in a store
\* with nothing pending
C16_Witness ==
    /\ Len(applied) = 1
    /\ applied[1].entry.phase = "bind"
    /\ applied[1].called
    /\ elements["e1"].textContent = Num(11)
    /\ updateQueue = <<>>
    /\ rafPending = 0

\* the bindings of the registry in iteration order
RECURSIVE Registry(_)
Registry(bs) ==
    IF bs = <<>> THEN <<>>
    ELSE [i \in 1..Len(bs[1].list) |-> [key |-> bs[1].key, b |-> bs[1].list[i]]]
           \o Registry(Tail(bs))

\* C17: a cleanup pass leaves exactly the bindings whose element is connected
\* at the pass, in registration order, and no flush calls a transform for or
\* writes an element that has no binding in the registry.
C17_CleanupExact ==
    [][/\ Cleanup =>
            /\ Registry(bindings') =
                 SelectSeq(Registry(bindings), LAMBDA r : elements[r.b.element].isConnected)
            /\ \A j \in 1..Len(bindings') : bindings'[j].list # <<>>
            /\ UNCHANGED <<elements, state, updateQueue, rafPending>>
       /\ Flush =>
            /\ \A e \in DOMAIN elements :
                  e \notin BoundElements(bindings) => elements'[e] = elements[e]
            /\ \A i \in 1..Len(applied') :
                  \E j \in 1..Len(Registry(bindings)) :
                      /\ Registry(bindings)[j].key = applied'[i].entry.key
                      /\ Registry(bindings)[j].b.element = applied'[i].entry.element]_vars

\* a flush updated a live binding after the value changed, while a detached
\* element whose binding a cleanup pass had removed still shows the old value
C17_Witness ==
    /\ getNested(state, Puun) = Num(1)
    /\ \E i \in 1..Len(applied) : applied[i].entry.phase = "flush" /\ applied[i].written
    /\ \E e \in DOMAIN elements :
          /\ ~elements[e].isConnected
          /\ e \notin BoundElements(bindings)
          /\ elements[e].textContent \in {Num(0), Num(10)}

\* C18: when a transform throws in a flush, its element keeps its value, every
\* other connected binding related to a changed key is updated, and the flush
\* completes.
C18_TransformIsolation ==
    [][Flush =>
          /\ AllBindings(LAMBDA K, b :
                (/\ elements[b.element].isConnected
                 /\ \E j \in 1..Len(updateQueue) : Related(K, updateQueue[j]))
                => IF TransformThrows(b.transform, getNested(state', K))
                   THEN elements'[b.element] = elements[b.element]
                   ELSE elements'[b.element].textContent =
                          ApplyTransform(b.transform, getNested(state', K)))
          /\ isUpdating' = FALSE
          /\ updateQueue' = <<>>]_vars

\* in one flush a transform threw and a binding after it, on the same key
\* path, was written
C18_Witness ==
    \E i, j \in 1..Len(applied) :
        /\ i < j
        /\ applied[i].entry.phase = "flush" /\ applied[i].threw
        /\ applied[j].entry.key = applied[i].entry.key
        /\ applied[j].entry.on = applied[i].entry.on
        /\ applied[j].written
        /\ elements[applied[i].entry.element].textContent # elements[applied[j].entry.element].textContent

Invoked(s, cs) == \E i \in 1..Len(cs) : cs[i].sub = s

\* C19: in a flush where a subscriber throws, every other registered
\* subscriber is invoked with the changed keys, the related connected bindings
\* are updated and the flush completes.
C19_SubscriberIsolation ==
    [][(Flush /\ \E s \in Range(subscribers) : SubKind(s) = "thrower") =>
          /\ \A s \in Range(subscribers) :
                \E i \in 1..Len(calls') : calls'[i] = [sub |-> s, keys |-> updateQueue]
          /\ AllBindings(LAMBDA K, b :
                (/\ elements[b.element].isConnected
                 /\ \E j \in 1..Len(updateQueue) : Related(K, updateQueue[j]))
                => /\ AppliedInFlush(K, b)'
                   /\ elements'[b.element].textContent =
                        ApplyTransform(b.transform, getNested(state', K)))
          /\ isUpdating' = FALSE]_vars

\* a subscriber threw, a subscriber registered after it was invoked and a
\* binding was written in the same flush
C19_Witness ==
    /\ \E i, j \in 1..Len(calls) :
          i < j /\ SubKind(calls[i].sub) = "thrower" /\ SubKind(calls[j].sub) = "plain"
    /\ \E i \in 1..Len(applied) : applied[i].entry.phase = "flush" /\ applied[i].written

\* C20: calling an unsubscribe handle, the first time or again, removes its
\* callback and no other and raises nothing; a flush invokes only callbacks
\* subscribed when it starts, and a callback calling its own handle removes
\* only itself.
C20_UnsubscribeEffective ==
    [][/\ \A s \in ManySubs : Unsubscribe(s) =>
             /\ subscribers' = SelectSeq(subscribers, LAMBDA c : c # s)
             /\ s \notin Range(subscribers) => subscribers' = subscribers
             /\ ~lastOp'.threw
             /\ UNCHANGED <<state, updateQueue, rafPending, isUpdating, elements, bindings>>
       /\ Flush =>
             /\ \A i \in 1..Len(calls') : calls'[i].sub \in Range(subscribers)
             /\ subscribers' =
                  SelectSeq(subscribers, LAMBDA c : SubKind(c) # "selfUnsubscriber")]_vars

\* a flush ran after a handle had been called: the unsubscribed callback was
\* not invoked, the callback that unsubscribed itself in the flush is gone and
\* the one registered after it was invoked and is still subscribed
C20_Witness ==
    /\ "s3" \in handles
    /\ ~Invoked("s3", calls)
    /\ \E i, j \in 1..Len(calls) : i < j /\ calls[i].sub = "s4" /\ calls[j].sub = "s1"
    /\ subscribers = <<"s1">>

\* C21: a subscriber registered when a flush starts is invoked in that flush,
\* also when a subscriber that runs earlier calls its unsubscribe handle.
C21_InFlightNotCancelled ==
    [][Flush => \A s \in Range(subscribers) : Invoked(s, calls')]_vars

\* C22: calling the cleanup function that bind() resolved to removes the
\* binding of its element from the registry.
C22_DisposerRemoves ==
    [][\A e \in ManyElements : Dispose(e) => e \notin BoundElements(bindings')]_vars

\* C23: when the element wait of a bind() call times out, the promise that
\* bind() returned is rejected.
C23_MissingTargetRejects ==
    \A e \in DOMAIN promises :
        promises[e].wait = "timedOut" => promises[e].settled = "rejected"

\* C24: in every flush each subscriber call is made before the first binding
\* is applied, and the subscriber calls and the binding applications all use
\* the changed-key list captured when the flush started.
C24_FlushOrdering ==
    [][Flush =>
          /\ \A i \in 1..Len(calls') : calls'[i].keys = updateQueue
          /\ \A i \in 1..Len(applied') :
                /\ applied'[i].after = Len(calls')
                /\ applied'[i].entry.on \in Range(updateQueue)]_vars

\* a flush called two subscribers with two changed keys and then wrote a
\* binding
C24_Witness ==
    /\ Len(calls) = 2
    /\ Len(calls[1].keys) = 2
    /\ \E i \in 1..Len(applied) :
          applied[i].entry.phase = "flush" /\ applied[i].written /\ applied[i].after = 2

\* C25: setState adds to the pending set only paths of keys it wrote; with an
\* empty partial, a non-mapping or a throwing call it adds nothing.
C25_NoSpuriousPending ==
    [][\A newState \in Partials \cup NonMappings, merge \in BOOLEAN :
          SetState(newState, merge) =>
             Range(updateQueue') \ Range(updateQueue) \subseteq OwnKeys(newState)]_vars

\* what  getState().k1...kn  evaluates to: a value, or the object behind the
\* Proxy that the read returns
ReadValue(S, chain) ==
    LET r == Read(S, chain)
    IN IF IsProxy(r) THEN TargetOf(S.state, r.chain) ELSE r.v

\* C26: directly after a property write, a setState or a write made by a
\* callback in a flush, a read through getState() returns the written value,
\* whatever the flag and the armed flushes are.
C26_ReadsSeeWrites ==
    [][/\ \A w \in WriteInputs :
             PropertyWrite(w[1], w[2], w[3]) => ReadValue(Cur', Append(w[1], w[2])) = w[3]
       /\ \A newState \in Partials, merge \in BOOLEAN :
             SetState(newState, merge) =>
                \A k \in OwnKeys(newState) : ReadValue(Cur', <<k>>) = newState.f[k]
       /\ Flush =>
             \A i \in 1..Len(calls') :
                 SubKind(calls'[i].sub) = "writer" => ReadValue(Cur', <<Kun>>) = Num(1)]_vars

\* a flush is armed for another path and a later write, which was not
\* reported, is read back
C26_Witness ==
    /\ isUpdating
    /\ rafPending > 0
    /\ updateQueue = <<Pun>>
    /\ ReadValue(Cur, <<Ku, Kun>>) = Num(1)
    /\ ReadValue(Cur, <<Ku, Ku, Ku>>) = Num(0)

\* C27: any two invocations of a function throttled with limit L are at least
\* L milliseconds apart.
C27_ThrottleRate ==
    \A i \in 1..Len(log) : i > 1 => log[i].at - log[i - 1].at >= Limit

\* C28: a call of the debounced function never invokes func; the timer does,
\* wait milliseconds or more after the last call and with its arguments; and
\* every burst of calls less than wait apart has exactly one invocation once
\* its timer has run.
C28_DebounceNoSyncCall == [][\A args \in Args : DebouncedCall(args) => log' = log]_vars

C28_DebounceTimerLast ==
    [][DebounceTimer =>
          /\ log' = Append(log, [at |-> clock, args |-> lastCall.args])
          /\ clock - lastCall.at >= Wait]_vars

C28_DebounceOncePerBurst ==
    Len(log) + (IF deb.timeout.set THEN 1 ELSE 0) = lastCall.burst

C29_GateOrder ==
    \A c \in 1..Len(checks) :
        LET ran == checks[c].ran
        IN \A j \in 1..Len(ran) :
              /\ ran[j].what = "mw" => ran[j].idx = j
              /\ (ran[j].what = "mw" /\ ran[j].kind \in {"block", "throw"}) =>
                    /\ j = Len(ran)
                    /\ checks[c].pc = "done"

C29_GateKeepsRoute ==
    [][\A c \in 1..(MaxNavigate + 1) :
          (/\ c <= Len(checks)
           /\ CheckStep(c)
           /\ checks[c].i <= Len(rtr.middleware))
          => rtr'.currentRoute = rtr.currentRoute]_vars

C29_MiddlewareGate == []C29_GateOrder /\ C29_GateKeepsRoute

\* a check of a path with a route was stopped by the second middleware after
\* an earlier check had set the current route
C29_Witness ==
    \E c \in 1..Len(checks) :
        /\ checks[c].matched # 0
        /\ checks[c].pc = "done"
        /\ Len(checks[c].ran) = 2
        /\ checks[c].ran[2].kind = "block"
        /\ rtr.currentRoute # 0
        /\ rtr.currentRoute # checks[c].matched

\* C30: add, use, setNotFound, navigate and init return the router they were
\* called on.
C30_MethodsReturnRouter == rtr.ret \in {"none", "router"}

\* C31: in a flush, a binding whose element is detached is not applied (its
\* transform is not called, its element keeps its value), the flush completes,
\* the connected related bindings are updated, and the registry is unchanged.
C31_DetachedSkipped ==
    [][Flush =>
          /\ \A e \in DOMAIN elements :
                ~elements[e].isConnected =>
                   /\ elements'[e] = elements[e]
                   /\ \A i \in 1..Len(applied') : applied'[i].entry.element # e
          /\ AllBindings(LAMBDA K, b :
                (/\ elements[b.element].isConnected
                 /\ \E j \in 1..Len(updateQueue) : Related(K, updateQueue[j])
                 /\ ~TransformThrows(b.transform, getNested(state', K)))
                => elements'[b.element].textContent =
                      ApplyTransform(b.transform, getNested(state', K)))
          /\ bindings' = bindings
          /\ isUpdating' = FALSE
          /\ updateQueue' = <<>>]_vars

\* a flush wrote a connected element while a detached element, still bound
\* to a related key path, kept its stale value
C31_Witness ==
    /\ \E i \in 1..Len(applied) : applied[i].entry.phase = "flush" /\ applied[i].written
    /\ \E j \in 1..Len(Registry(bindings)) :
          LET r == Registry(bindings)[j]
          IN /\ ~elements[r.b.element].isConnected
             /\ r.b.transform = "none"
             /\ r.key = Puun
             /\ getNested(state, Puun) = Num(1)
             /\ elements[r.b.element].textContent = Num(0)

\* C32 (settling): a wait settles at most once, and once it has settled its
\* observer is disconnected and its timer is not set.
C32_SettlesOnce ==
    \A w \in Waiters :
        /\ Len(waits[w].settles) <= 1
        /\ waits[w].called =>
              /\ (waits[w].settled = "pending") = (waits[w].settles = <<>>)
              /\ waits[w].settled # "pending" =>
                    ~waits[w].observing /\ ~waits[w].timeoutId.set

\* C32 (outcome): a wait called when the selector matches is resolved at
\* once; a wait is rejected only when its timeout has elapsed, and then no
\* element matches the selector.
C32_Outcome ==
    [][/\ \A w \in Waiters, timeout \in WaitTimeouts :
             (WaitFor(w, timeout) /\ matching) => waits'[w].settled = "resolved"
       /\ \A w \in Waiters :
             (waits[w].settled = "pending" /\ waits'[w].settled = "rejected") =>
                /\ clock >= waits[w].timeoutId.due
                /\ ~matching]_vars

\* C32: waitFor settles exactly once: it resolves if the selector matches at
\* call time or when a DOM mutation makes it match before the timeout, and
\* otherwise rejects when the timeout elapses; once settled no callback of the
\* wait is left.
C32_WaitForSettlesOnce == []C32_SettlesOnce /\ C32_Outcome

\* C33: with { leading: false, trailing: true }, when the throttled function
\* has been called at least twice and is then left alone, func is eventually
\* invoked with the arguments of the last call.
C33_TrailingEdge ==
    \A n \in 2..MaxCalls, a \in Args :
        <>[](lastCall.burst = n /\ lastCall.args = a)
            => <>(log # <<>> /\ log[Len(log)].args = a)

\* with leading disabled func is never invoked
C33_NeverInvoked == log = <<>>

\* C34: whenever isUpdating is true a flush callback is pending (setState and
\* a flush are single steps); and with no flush pending, a property write that
\* changes a value is recorded in the queue and arms a flush.
C34_FlagHasFlush == isUpdating => rafPending > 0

C34_WriteArms ==
    [][\A w \in FlagWrites :
          (PropertyWrite(w[1], w[2], w[3]) /\ rafPending = 0 /\ state' # state) =>
             /\ updateQueue' = <<PathJoin(Read(Cur, w[1]).path, w[2])>>
             /\ rafPending' = 1
             /\ isUpdating']_vars

C34_FlagNeverSticks == []C34_FlagHasFlush /\ C34_WriteArms

\* the last pending flush has run, in it a subscriber threw and a transform
\* threw, and the flag is down
C34_Witness ==
    /\ rafPending = 0
    /\ ~isUpdating
    /\ \E i \in 1..Len(calls) : SubKind(calls[i].sub) = "thrower"
    /\ \E i \in 1..Len(applied) : applied[i].entry.phase = "flush" /\ applied[i].threw

\* C35: the module-level store reference denotes the most recently created
\* store; a bind() called after a later store was created registers its
\* binding in that store only, the periodic cleanup sweeps that store only,
\* and neither changes an earlier store.
C35_LatestStore == stateStore = Len(stores)

C35_OnlyLatestChanges ==
    [][/\ \A e \in ManyElements :
             (SingletonBindFound(e) /\ pending[e].from >= 2) =>
                /\ e \in BoundElements(stores'[Len(stores)].bindings)
                /\ \A i \in 1..(Len(stores) - 1) : stores'[i] = stores[i]
       /\ PeriodicCleanup =>
             /\ \A i \in 1..(Len(stores) - 1) : stores'[i] = stores[i]
             /\ Len(stores) > 0 =>
                   Registry(stores'[Len(stores)].bindings) =
                      SelectSeq(Registry(stores[Len(stores)].bindings),
                                LAMBDA r : elements[r.b.element].isConnected)]_vars

C35_SingletonRouting == []C35_LatestStore /\ C35_OnlyLatestChanges

\* a cleanup pass removed a binding of the second store while the first store
\* keeps the binding of a detached element
C35_Witness ==
    /\ Len(stores) = 2
    /\ lastOp = Op("cleanup", "removed", FALSE)
    /\ \E e \in BoundElements(stores[1].bindings) : ~elements[e].isConnected
    /\ stores[2].bindings = <<>>

\* the check ran a middleware and no middleware stopped it
PassedGate(ck) ==
    /\ ck.pc = "done"
    /\ ck.ran # <<>>
    /\ ck.ran[1].what = "mw"
    /\ \A j \in 1..Len(ck.ran) : ck.ran[j].what = "mw" => ~Stops(ck.ran[j].kind)

\* C36: when the checks of two navigations have finished, each after awaiting
\* a middleware, getCurrentRoute() returns the route the check of the later
\* navigation matched (null if none).
C36_LastNavigationWins ==
    (/\ Len(checks) = 2
     /\ PassedGate(checks[1])
     /\ PassedGate(checks[2]))
    => rtr.currentRoute = checks[2].matched

====
